---- MODULE Spec2Model ----
(***************************************************************************)
(* Symbolic arithmetic expressions (src/src/num.rs) and the units-of-      *)
(* measure wrapper built on them (src/src/units.rs).                       *)
(*                                                                         *)
(* A String is a sequence of one-character strings, so that the output of  *)
(* the two renderers can be inspected character by character.              *)
(***************************************************************************)
EXTENDS Integers, Sequences, FiniteSets

VARIABLES
    stack,    \* SymbolicManip<i32> values the caller currently owns
    last,     \* the last inspection call on an expression: its argument and result
    payload,  \* the payload type T of the Units<T> values: "f64" or "sym"
    ustack,   \* Units<T> values the caller currently owns
    ulast,    \* the last Units operator call: its operands and result
    aborted   \* TRUE once a Units operator has panicked

vars == <<stack, last, payload, ustack, ulast, aborted>>

(***************************************************************************)
(* Bounds of the model.                                                    *)
(***************************************************************************)
MaxNodes == 5       \* nodes of all expressions on the stack together
MaxStack == 2       \* expressions on the stack
MaxUStack == 3      \* Units values on the stack
MaxDimNodes == 6    \* nodes of all dimension expressions on the stack together
MaxNumNodes == 5    \* nodes of all symbolic numbers on the stack together
MaxAbs == 2         \* magnitude of an f64 number

LitVals == {0, 1, 2}                        \* payload values lifted into literals
SymNames == {<<"x">>}                       \* names given to Symbol
UnitNames == {<<"m">>, <<"s">>}             \* unit names given to Units::new
UnitVals == {1, 2}                          \* numbers given to Units::new

(***************************************************************************)
(* The expression type, num.rs:38-44.                                      *)
(***************************************************************************)
Number(x) == [tag |-> "Number", val |-> x]
Symbol(s) == [tag |-> "Symbol", name |-> s]
BinaryArith(op, a, b) == [tag |-> "BinaryArith", op |-> op, a |-> a, b |-> b]
UnaryArith(op, a) == [tag |-> "UnaryArith", op |-> op, a |-> a]

IsNumber(e) == e.tag = "Number"
IsSymbol(e) == e.tag = "Symbol"
IsBinary(e) == e.tag = "BinaryArith"
IsUnary(e) == e.tag = "UnaryArith"

\* derived PartialEq: same variant and equal fields, recursively
RECURSIVE ExprEq(_, _)
ExprEq(e, f) ==
    /\ e.tag = f.tag
    /\ CASE IsNumber(e) -> e.val = f.val
         [] IsSymbol(e) -> e.name = f.name
         [] IsBinary(e) -> e.op = f.op /\ ExprEq(e.a, f.a) /\ ExprEq(e.b, f.b)
         [] IsUnary(e) -> e.op = f.op /\ ExprEq(e.a, f.a)

\* impl fmt::Display for Op
OpText(op) ==
    CASE op = "Plus" -> <<"+">>
      [] op = "Minus" -> <<"-">>
      [] op = "Mul" -> <<"*">>
      [] op = "Div" -> <<"/">>
      [] op = "Pow" -> <<"*", "*">>

\* the operators and helpers that build trees
ExprAdd(self, other) == BinaryArith("Plus", self, other)
ExprSub(self, other) == BinaryArith("Minus", self, other)
ExprMul(self, other) == BinaryArith("Mul", self, other)
ExprDiv(self, other) == BinaryArith("Div", self, other)
ExprPow(self, other) == BinaryArith("Pow", self, other)
ExprNeg(self) == ExprMul(self, Number(-1))
ExprAbs(self) == UnaryArith(<<"a", "b", "s">>, self)
ExprSqrt(self) == UnaryArith(<<"s", "q", "r", "t">>, self)
ExprPi == Symbol(<<"p", "i">>)

\* i32's Display: decimal digits, a leading minus sign for a negative number
DigitChar(d) == <<"0", "1", "2", "3", "4", "5", "6", "7", "8", "9">>[d + 1]

RECURSIVE Digits(_)
Digits(n) == IF n < 10 THEN <<DigitChar(n)>>
             ELSE Digits(n \div 10) \o <<DigitChar(n % 10)>>

ToString(n) == IF n < 0 THEN <<"-">> \o Digits(-n) ELSE Digits(n)

RECURSIVE PrettyShow(_)

\* a plausible slip: a binary operand is not wrapped
SimpleParenBare(e) == PrettyShow(e)

SimpleParen(e) ==
    CASE IsNumber(e) -> ToString(e.val)
      [] IsSymbol(e) -> e.name
      [] IsBinary(e) -> <<"(">> \o PrettyShow(e) \o <<")">>
      [] OTHER -> PrettyShow(e)

PrettyShow(e) ==
    CASE IsNumber(e) -> ToString(e.val)
      [] IsSymbol(e) -> e.name
      [] IsBinary(e) -> SimpleParen(e.a) \o OpText(e.op) \o SimpleParen(e.b)
      [] IsUnary(e) -> e.op \o <<"(">> \o PrettyShow(e.a) \o <<")">>

RECURSIVE ToRpn(_)

\* a plausible slip: the operator is written before its operands
RECURSIVE ToRpnPrefix(_)
ToRpnPrefix(e) ==
    CASE IsNumber(e) -> ToString(e.val)
      [] IsSymbol(e) -> e.name
      [] IsBinary(e) -> OpText(e.op) \o <<" ">> \o ToRpnPrefix(e.a) \o <<" ">> \o ToRpnPrefix(e.b)
      [] IsUnary(e) -> e.op \o <<" ">> \o ToRpnPrefix(e.a)

ToRpn(e) ==
    CASE IsNumber(e) -> ToString(e.val)
      [] IsSymbol(e) -> e.name
      [] IsBinary(e) -> ToRpn(e.a) \o <<" ">> \o ToRpn(e.b) \o <<" ">> \o OpText(e.op)
      [] IsUnary(e) -> ToRpn(e.a) \o <<" ">> \o e.op

One == Number(1)
Zero == Number(0)

\* a plausible slip: the arm for a left operand equal to one is missing
SimplifyNodeNoLeftOne(op, sa, sb) ==
    IF op = "Mul" /\ ExprEq(sb, One) THEN sa
    ELSE IF op = "Mul" /\ (ExprEq(sa, Zero) \/ ExprEq(sb, Zero)) THEN Zero
    ELSE IF op = "Div" /\ ExprEq(sb, One) THEN sa
    ELSE IF op = "Plus" /\ ExprEq(sa, Zero) THEN sb
    ELSE IF op = "Plus" /\ ExprEq(sb, Zero) THEN sa
    ELSE IF op = "Minus" /\ ExprEq(sb, Zero) THEN sa
    ELSE BinaryArith(op, sa, sb)

\* a plausible slip: the zero arm of Mul only looks at the left operand
SimplifyNodeLeftZero(op, sa, sb) ==
    IF op = "Mul" /\ ExprEq(sa, One) THEN sb
    ELSE IF op = "Mul" /\ ExprEq(sb, One) THEN sa
    ELSE IF op = "Mul" /\ ExprEq(sa, Zero) THEN Zero
    ELSE IF op = "Div" /\ ExprEq(sb, One) THEN sa
    ELSE IF op = "Plus" /\ ExprEq(sa, Zero) THEN sb
    ELSE IF op = "Plus" /\ ExprEq(sb, Zero) THEN sa
    ELSE IF op = "Minus" /\ ExprEq(sb, Zero) THEN sa
    ELSE BinaryArith(op, sa, sb)

\* the inner match of simplify, arms tried in order
SimplifyNode(op, sa, sb) ==
    IF op = "Mul" /\ ExprEq(sa, One) THEN sb
    ELSE IF op = "Mul" /\ ExprEq(sb, One) THEN sa
    ELSE IF op = "Mul" /\ (ExprEq(sa, Zero) \/ ExprEq(sb, Zero)) THEN Zero
    ELSE IF op = "Div" /\ ExprEq(sb, One) THEN sa
    ELSE IF op = "Plus" /\ ExprEq(sa, Zero) THEN sb
    ELSE IF op = "Plus" /\ ExprEq(sb, Zero) THEN sa
    ELSE IF op = "Minus" /\ ExprEq(sb, Zero) THEN sa
    ELSE BinaryArith(op, sa, sb)

RECURSIVE Simplify(_)

\* a plausible slip: the arms test the original operands, not the simplified ones
RECURSIVE SimplifyOrig(_)
SimplifyOrig(e) ==
    CASE IsBinary(e) ->
            LET sa == SimplifyOrig(e.a)
                sb == SimplifyOrig(e.b)
            IN  IF e.op = "Mul" /\ ExprEq(e.a, One) THEN sb
                ELSE IF e.op = "Mul" /\ ExprEq(e.b, One) THEN sa
                ELSE IF e.op = "Mul" /\ (ExprEq(e.a, Zero) \/ ExprEq(e.b, Zero)) THEN Zero
                ELSE IF e.op = "Div" /\ ExprEq(e.b, One) THEN sa
                ELSE IF e.op = "Plus" /\ ExprEq(e.a, Zero) THEN sb
                ELSE IF e.op = "Plus" /\ ExprEq(e.b, Zero) THEN sa
                ELSE IF e.op = "Minus" /\ ExprEq(e.b, Zero) THEN sa
                ELSE BinaryArith(e.op, sa, sb)
      [] IsUnary(e) -> UnaryArith(e.op, SimplifyOrig(e.a))
      [] OTHER -> e

\* a plausible slip: the arms are applied at the root only, without recursing first
SimplifyShallow(e) ==
    CASE IsBinary(e) -> SimplifyNode(e.op, e.a, e.b)
      [] IsUnary(e) -> UnaryArith(e.op, e.a)
      [] OTHER -> e

Simplify(e) ==
    CASE IsBinary(e) ->
            LET sa == Simplify(e.a)
                sb == Simplify(e.b)
            IN  SimplifyNode(e.op, sa, sb)
      [] IsUnary(e) -> UnaryArith(e.op, Simplify(e.a))
      [] OTHER -> e

RECURSIVE NodeCount(_)
NodeCount(e) ==
    CASE IsBinary(e) -> 1 + NodeCount(e.a) + NodeCount(e.b)
      [] IsUnary(e) -> 1 + NodeCount(e.a)
      [] OTHER -> 1

RECURSIVE SumNodes(_)
SumNodes(s) == IF s = <<>> THEN 0 ELSE NodeCount(Head(s)) + SumNodes(Tail(s))

(***************************************************************************)
(* The caller of the expression engine: it builds expressions with the     *)
(* operators, which consume their operands, and inspects the newest one.   *)
(***************************************************************************)
NoCall == [op |-> "none"]

Top == stack[Len(stack)]
Second == stack[Len(stack) - 1]
Push(e) == Append(stack, e)
Replace1(e) == Append(SubSeq(stack, 1, Len(stack) - 1), e)
Replace2(e) == Append(SubSeq(stack, 1, Len(stack) - 2), e)

UnitsIdle == /\ payload = "f64" /\ ustack = <<>> /\ ulast = NoCall /\ aborted = FALSE

Init == /\ stack = <<>>
        /\ last = NoCall
        /\ UnitsIdle

Built(s) == /\ stack' = s
            /\ last' = NoCall
            /\ UNCHANGED <<payload, ustack, ulast, aborted>>

Leaf(e) == /\ Len(stack) < MaxStack
           /\ SumNodes(stack) < MaxNodes
           /\ Built(Push(e))

FromT == \E n \in LitVals : Leaf(Number(n))
MkSymbol == \E s \in SymNames : Leaf(Symbol(s))
Pi == Leaf(ExprPi)

\* either of the two newest expressions may be the left operand
Operands == {<<Second, Top>>, <<Top, Second>>}

Binary(e) == /\ SumNodes(stack) < MaxNodes
             /\ Built(Replace2(e))

Add == Len(stack) >= 2 /\ \E o \in Operands : Binary(ExprAdd(o[1], o[2]))
Sub == Len(stack) >= 2 /\ \E o \in Operands : Binary(ExprSub(o[1], o[2]))
Mul == Len(stack) >= 2 /\ \E o \in Operands : Binary(ExprMul(o[1], o[2]))
Div == Len(stack) >= 2 /\ \E o \in Operands : Binary(ExprDiv(o[1], o[2]))
Pow == Len(stack) >= 2 /\ \E o \in Operands : Binary(ExprPow(o[1], o[2]))

Unary(e, grow) == /\ Len(stack) >= 1
                  /\ SumNodes(stack) + grow <= MaxNodes
                  /\ Built(Replace1(e))

Neg == Unary(ExprNeg(Top), 2)
Abs == Unary(ExprAbs(Top), 1)
Sqrt == Unary(ExprSqrt(Top), 1)

\* the caller inspects a finished expression
Inspect(name, res) ==
    /\ Len(stack) = 1
    /\ last' = [op |-> name, arg |-> Top, res |-> res]

\* the caller keeps the simplified expression in place of the original
DoSimplify == /\ Inspect("simplify", Simplify(Top))
              /\ stack' = Replace1(Simplify(Top))
              /\ UNCHANGED <<payload, ustack, ulast, aborted>>

DoPrettyShow == /\ Inspect("pretty_show", PrettyShow(Top))
                /\ UNCHANGED <<stack, payload, ustack, ulast, aborted>>

DoToRpn == /\ Inspect("to_rpn", ToRpn(Top))
           /\ UNCHANGED <<stack, payload, ustack, ulast, aborted>>

Next == \/ FromT \/ MkSymbol \/ Pi
        \/ Add \/ Sub \/ Mul \/ Div \/ Pow
        \/ Neg \/ Abs \/ Sqrt
        \/ DoSimplify \/ DoPrettyShow \/ DoToRpn

Spec == Init /\ [][Next]_vars

(***************************************************************************)
(* Units<T>, units.rs.  T is f64 (main.rs:44) or SymbolicManip<f64>        *)
(* (main.rs:45).  An f64 is modelled where it is an integer; a symbolic    *)
(* number is a tree, and its operators are the tree builders above.        *)
(***************************************************************************)
Payloads == {"f64", "sym"}

Abs64(x) == IF x < 0 THEN 0 - x ELSE x

\* the f64 quotient x / y where it is an integer
HasQuotient(x, y) == \E q \in (0 - Abs64(x))..Abs64(x) : q * y = x
Quotient(x, y) == CHOOSE q \in (0 - Abs64(x))..Abs64(x) : q * y = x

PFrom(v) == IF payload = "f64" THEN v ELSE Number(v)
PAdd(x, y) == IF payload = "f64" THEN x + y ELSE ExprAdd(x, y)
PSub(x, y) == IF payload = "f64" THEN x - y ELSE ExprSub(x, y)
PMul(x, y) == IF payload = "f64" THEN x * y ELSE ExprMul(x, y)
PDiv(x, y) == IF payload = "f64" THEN Quotient(x, y) ELSE ExprDiv(x, y)
PNeg(x) == IF payload = "f64" THEN 0 - x ELSE ExprNeg(x)
PEq(x, y) == IF payload = "f64" THEN x = y ELSE ExprEq(x, y)

\* the f64 quotient x / y is an integer the model holds
PDivExact(x, y) == payload = "f64" => y # 0 /\ HasQuotient(x, y)

PSize(x) == IF payload = "f64" THEN 1 ELSE NodeCount(x)
PSmall(x) == payload = "f64" => Abs64(x) <= MaxAbs

UnitsValue(n, u) == [number |-> n, unit |-> u]
Returned(v) == [ok |-> TRUE, val |-> v]
Panicked(a, b) == [ok |-> FALSE, msg |-> <<a, b>>]

UnitsNew(num, u) == UnitsValue(num, Symbol(u))

\* a plausible slip: the units are not compared
UnitsAddUnchecked(self, other) ==
    Returned(UnitsValue(PAdd(self.number, other.number), self.unit))

UnitsAdd(self, other) ==
    IF ~ExprEq(self.unit, other.unit) THEN Panicked(self.unit, other.unit)
    ELSE Returned(UnitsValue(PAdd(self.number, other.number), self.unit))

\* a plausible slip: the whole value is negated, its unit included
UnitsNegAll(self) == UnitsValue(PNeg(self.number), ExprNeg(self.unit))

UnitsNeg(self) == UnitsValue(PNeg(self.number), self.unit)

\* a plausible slip: the right operand is not negated
UnitsSubAsAdd(self, other) == UnitsAdd(self, other)

UnitsSub(self, other) == UnitsAdd(self, UnitsNeg(other))

UnitsMul(self, other) ==
    UnitsValue(PMul(self.number, other.number), ExprMul(self.unit, other.unit))

\* a plausible slip: div copied from mul with the unit left as a product
UnitsDivAsMul(self, other) ==
    UnitsValue(PDiv(self.number, other.number), ExprMul(self.unit, other.unit))

UnitsDiv(self, other) ==
    UnitsValue(PDiv(self.number, other.number), ExprDiv(self.unit, other.unit))

RECURSIVE SumDims(_)
SumDims(s) == IF s = <<>> THEN 0 ELSE NodeCount(Head(s).unit) + SumDims(Tail(s))

RECURSIVE SumNums(_)
SumNums(s) == IF s = <<>> THEN 0 ELSE PSize(Head(s).number) + SumNums(Tail(s))

Fits(s) == /\ SumDims(s) <= MaxDimNodes
           /\ payload = "sym" => SumNums(s) <= MaxNumNodes
           /\ \A i \in 1..Len(s) : PSmall(s[i].number)

UTop == ustack[Len(ustack)]
USecond == ustack[Len(ustack) - 1]
UReplace1(v) == Append(SubSeq(ustack, 1, Len(ustack) - 1), v)
UReplace2(v) == Append(SubSeq(ustack, 1, Len(ustack) - 2), v)

\* the two newest values are the operands, the older one on the left
UOperands == {<<USecond, UTop>>}

ExprIdle == stack = <<>> /\ last = NoCall

InitU == /\ ExprIdle
         /\ payload \in Payloads
         /\ ustack = <<>>
         /\ ulast = NoCall
         /\ aborted = FALSE

UNew == /\ ~aborted
        /\ Len(ustack) < MaxUStack
        /\ \E v \in UnitVals, u \in UnitNames :
              /\ Fits(Append(ustack, UnitsNew(PFrom(v), u)))
              /\ ustack' = Append(ustack, UnitsNew(PFrom(v), u))
        /\ ulast' = NoCall
        /\ UNCHANGED <<stack, last, payload, aborted>>

\* an operator that may panic: the panic unwinds the caller and drops its values
UFallible(name, a, b, r) ==
    /\ ulast' = [op |-> name, a |-> a, b |-> b, r |-> r]
    /\ IF r.ok
       THEN /\ Fits(UReplace2(r.val))
            /\ ustack' = UReplace2(r.val)
            /\ aborted' = FALSE
       ELSE /\ ustack' = <<>>
            /\ aborted' = TRUE
    /\ UNCHANGED <<stack, last, payload>>

UAdd == /\ ~aborted /\ Len(ustack) >= 2
        /\ \E o \in UOperands : UFallible("add", o[1], o[2], UnitsAdd(o[1], o[2]))

USub == /\ ~aborted /\ Len(ustack) >= 2
        /\ \E o \in UOperands : UFallible("sub", o[1], o[2], UnitsSub(o[1], o[2]))

UTotal(name, a, b, v) ==
    /\ Fits(UReplace2(v))
    /\ ustack' = UReplace2(v)
    /\ ulast' = [op |-> name, a |-> a, b |-> b, r |-> Returned(v)]
    /\ UNCHANGED <<stack, last, payload, aborted>>

UMul == /\ ~aborted /\ Len(ustack) >= 2
        /\ \E o \in UOperands : UTotal("mul", o[1], o[2], UnitsMul(o[1], o[2]))

UDiv == /\ ~aborted /\ Len(ustack) >= 2
        /\ \E o \in UOperands :
              /\ PDivExact(o[1].number, o[2].number)
              /\ UTotal("div", o[1], o[2], UnitsDiv(o[1], o[2]))

UNeg == /\ ~aborted /\ Len(ustack) >= 1
        /\ Fits(UReplace1(UnitsNeg(UTop)))
        /\ ustack' = UReplace1(UnitsNeg(UTop))
        /\ ulast' = [op |-> "neg", a |-> UTop, r |-> Returned(UnitsNeg(UTop))]
        /\ UNCHANGED <<stack, last, payload, aborted>>

NextU == UNew \/ UAdd \/ USub \/ UMul \/ UDiv \/ UNeg

UnitsSpec == InitU /\ [][NextU]_vars

(***************************************************************************)
(* Properties of the expression engine.                                    *)
(***************************************************************************)
Simplified == last.op = "simplify"
Shown == last.op = "pretty_show"
Rpn == last.op = "to_rpn"

Count(text, ch) == Cardinality({i \in 1..Len(text) : text[i] = ch})

X == Symbol(<<"x">>)
X1 == ExprMul(X, One)
X1X1 == ExprMul(X1, One)

\* C1: simplify obeys the six identity rewrite laws: simplify(1*E), simplify(E*1),
\* simplify(E/1), simplify(0+E) and simplify(E-0) are structurally equal to
\* simplify(E), and simplify(0*E) is Literal(0).
C1_IdentityLaws ==
    Simplified /\ IsBinary(last.arg) =>
        LET op == last.arg.op
            a == last.arg.a
            b == last.arg.b
            r == last.res
        IN  /\ op = "Mul" /\ ExprEq(a, One) => ExprEq(r, Simplify(b))
            /\ op = "Mul" /\ ExprEq(b, One) => ExprEq(r, Simplify(a))
            /\ op = "Mul" /\ ExprEq(a, Zero) => ExprEq(r, Zero)
            /\ op = "Div" /\ ExprEq(b, One) => ExprEq(r, Simplify(a))
            /\ op = "Plus" /\ ExprEq(a, Zero) => ExprEq(r, Simplify(b))
            /\ op = "Minus" /\ ExprEq(b, Zero) => ExprEq(r, Simplify(a))

\* simplify was called on E*1 where E is itself a binary node that simplifies to 1
C1_Witness ==
    /\ Simplified /\ IsBinary(last.arg)
    /\ last.arg.op = "Mul" /\ ExprEq(last.arg.b, One)
    /\ IsBinary(last.arg.a) /\ ExprEq(Simplify(last.arg.a), One)

\* C3 as stated: one call to simplify on (x*1)*1 yields x*1.
C3_OneCallLeavesX1 ==
    Simplified /\ ExprEq(last.arg, X1X1) => ExprEq(last.res, X1)

\* C3 amended: one call to simplify on (x*1)*1 already yields x, and simplifying
\* that result again changes nothing.
C3_OneCallYieldsX ==
    Simplified /\ ExprEq(last.arg, X1X1) =>
        ExprEq(last.res, X) /\ ExprEq(Simplify(last.res), X)

C3_Witness == Simplified /\ ExprEq(last.arg, X1X1) /\ stack = <<X>>

\* the operands of the node e that are an identity literal of its operator
IdentityOperands(e) ==
    IF ~IsBinary(e) THEN 0
    ELSE (IF e.op \in {"Mul", "Plus"} /\ ExprEq(e.a, Zero) THEN 1 ELSE 0)
       + (IF e.op \in {"Mul", "Plus", "Minus"} /\ ExprEq(e.b, Zero) THEN 1 ELSE 0)
       + (IF e.op = "Mul" /\ ExprEq(e.a, One) THEN 1 ELSE 0)
       + (IF e.op \in {"Mul", "Div"} /\ ExprEq(e.b, One) THEN 1 ELSE 0)

\* the identity operands of the nodes of e that lie d levels below its root
RECURSIVE IdentitiesAt(_, _)
IdentitiesAt(e, d) ==
    IF d = 0 THEN IdentityOperands(e)
    ELSE CASE IsBinary(e) -> IdentitiesAt(e.a, d - 1) + IdentitiesAt(e.b, d - 1)
           [] IsUnary(e) -> IdentitiesAt(e.a, d - 1)
           [] OTHER -> 0

OneIdentityPerLevel(e) == \A d \in 0..NodeCount(e) : IdentitiesAt(e, d) <= 1

\* C6: when E has at most one redundant identity at each level, simplify(simplify(E))
\* renders the same infix text as simplify(E).
C6_SecondPassSameText ==
    Simplified /\ OneIdentityPerLevel(last.arg) =>
        PrettyShow(Simplify(last.res)) = PrettyShow(last.res)

\* simplify was called on a tree with one identity at the level below the root
C6_Witness ==
    /\ Simplified /\ OneIdentityPerLevel(last.arg)
    /\ IdentitiesAt(last.arg, 1) = 1
    /\ ~ExprEq(last.res, last.arg)

\* the parentheses the policy calls for: one pair around every binary operand of a
\* binary node, one pair after every unary name
RECURSIVE ParenPairs(_)
ParenPairs(e) ==
    CASE IsBinary(e) -> (IF IsBinary(e.a) THEN 1 ELSE 0) + (IF IsBinary(e.b) THEN 1 ELSE 0)
                        + ParenPairs(e.a) + ParenPairs(e.b)
      [] IsUnary(e) -> 1 + ParenPairs(e.a)
      [] OTHER -> 0

Wrapped(e) == IF IsBinary(e) THEN <<"(">> \o PrettyShow(e) \o <<")">> ELSE PrettyShow(e)

\* C7: infix rendering writes a binary node as <left><op><right> without spaces, a
\* Literal or Symbol operand bare, a binary operand in exactly one pair of
\* parentheses whatever the operators, a unary operand as name(operand); so
\* (2+3)*4 is "(2+3)*4", 2*3 is "2*3" and 2+(3*4) is "2+(3*4)".
C7_ConservativeParens ==
    /\ Shown =>
        /\ IsNumber(last.arg) => last.res = ToString(last.arg.val)
        /\ IsSymbol(last.arg) => last.res = last.arg.name
        /\ IsBinary(last.arg) =>
              last.res = Wrapped(last.arg.a) \o OpText(last.arg.op) \o Wrapped(last.arg.b)
        /\ IsUnary(last.arg) =>
              last.res = last.arg.op \o <<"(">> \o PrettyShow(last.arg.a) \o <<")">>
        /\ Count(last.res, " ") = 0
        /\ Count(last.res, "(") = ParenPairs(last.arg)
        /\ Count(last.res, ")") = ParenPairs(last.arg)
    /\ PrettyShow(ExprMul(ExprAdd(Number(2), Number(3)), Number(4)))
          = <<"(", "2", "+", "3", ")", "*", "4">>
    /\ PrettyShow(ExprMul(Number(2), Number(3))) = <<"2", "*", "3">>
    /\ PrettyShow(ExprAdd(Number(2), ExprMul(Number(3), Number(4))))
          = <<"2", "+", "(", "3", "*", "4", ")">>

\* pretty_show was called on a sum whose right operand is a product
C7_Witness ==
    /\ Shown /\ IsBinary(last.arg) /\ last.arg.op = "Plus"
    /\ IsNumber(last.arg.a)
    /\ IsBinary(last.arg.b) /\ last.arg.b.op = "Mul"

\* C8: to_rpn writes a Literal or Symbol as its text, a binary node as
\* "<left> <right> <op>", a unary node as "<operand> <name>", with the operator
\* tokens + - * / **; the output has one space-separated token per node, and
\* 2+3 is "2 3 +".
C8_PostOrder ==
    /\ Rpn =>
        /\ IsNumber(last.arg) => last.res = ToString(last.arg.val)
        /\ IsSymbol(last.arg) => last.res = last.arg.name
        /\ IsBinary(last.arg) =>
              last.res = ToRpn(last.arg.a) \o <<" ">> \o ToRpn(last.arg.b)
                         \o <<" ">> \o OpText(last.arg.op)
        /\ IsUnary(last.arg) => last.res = ToRpn(last.arg.a) \o <<" ">> \o last.arg.op
        /\ Count(last.res, " ") + 1 = NodeCount(last.arg)
    /\ ToRpn(ExprAdd(Number(2), Number(3))) = <<"2", " ", "3", " ", "+">>
    /\ <<OpText("Plus"), OpText("Minus"), OpText("Mul"), OpText("Div"), OpText("Pow")>>
          = << <<"+">>, <<"-">>, <<"*">>, <<"/">>, <<"*", "*">> >>

\* to_rpn was called on a power whose base is a binary node
C8_Witness ==
    /\ Rpn /\ IsBinary(last.arg) /\ last.arg.op = "Pow"
    /\ IsBinary(last.arg.a) /\ IsSymbol(last.arg.b)

\* no node of e is an identity pattern that simplify rewrites
RECURSIVE NormalForm(_)
NormalForm(e) ==
    CASE IsBinary(e) -> IdentityOperands(e) = 0 /\ NormalForm(e.a) /\ NormalForm(e.b)
      [] IsUnary(e) -> NormalForm(e.a)
      [] OTHER -> TRUE

\* C10: the output of one simplify call holds no identity pattern at any depth, a
\* second call returns a structurally equal tree, and the output has no more
\* nodes than the input.
C10_NormalForm ==
    Simplified =>
        /\ NormalForm(last.res)
        /\ ExprEq(Simplify(last.res), last.res)
        /\ NodeCount(last.res) <= NodeCount(last.arg)

\* simplify was called on a tree with an identity below the root whose removal
\* leaves another identity at the root
C10_Witness ==
    /\ Simplified /\ IsBinary(last.arg)
    /\ IdentityOperands(last.arg) = 0
    /\ IsBinary(last.arg.a) /\ IdentityOperands(last.arg.a) > 0
    /\ NodeCount(last.res) = 1

(***************************************************************************)
(* Properties of the units wrapper.                                        *)
(***************************************************************************)
Called(name) == ulast.op = name

M == Symbol(<<"m">>)
S == Symbol(<<"s">>)

\* C2: a + b succeeds exactly when the two dimensions are structurally equal (m*s
\* and s*m are not); on success the number is a.number + b.number and the
\* dimension is the operands' dimension; otherwise the operation aborts and
\* produces no Units value.
C2_AddChecksUnits ==
    Called("add") =>
        LET a == ulast.a
            b == ulast.b
            r == ulast.r
        IN  /\ r.ok <=> ExprEq(a.unit, b.unit)
            /\ r.ok => /\ PEq(r.val.number, PAdd(a.number, b.number))
                       /\ ExprEq(r.val.unit, a.unit)
                       /\ ExprEq(r.val.unit, b.unit)
                       /\ ~aborted
                       /\ ustack # <<>> /\ UTop = r.val
            /\ ~r.ok => /\ aborted
                        /\ ustack = <<>>
                        /\ r.msg = <<a.unit, b.unit>>

\* a value in m*s was added to a value in s*m, and the addition panicked
C2_Witness ==
    /\ Called("add") /\ aborted
    /\ ExprEq(ulast.a.unit, ExprMul(M, S))
    /\ ExprEq(ulast.b.unit, ExprMul(S, M))

\* C4: a*b and a/b never abort; the number is a.number*b.number, respectively
\* a.number/b.number, and the dimension is exactly BinaryNode(Multiply, a.dim, b.dim),
\* respectively BinaryNode(Divide, a.dim, b.dim), not simplified: m divided by m
\* renders as m/m.
C4_MulDivCombineUnits ==
    /\ Called("mul") =>
        /\ ulast.r.ok /\ ~aborted
        /\ PEq(ulast.r.val.number, PMul(ulast.a.number, ulast.b.number))
        /\ ExprEq(ulast.r.val.unit, BinaryArith("Mul", ulast.a.unit, ulast.b.unit))
    /\ Called("div") =>
        /\ ulast.r.ok /\ ~aborted
        /\ PEq(ulast.r.val.number, PDiv(ulast.a.number, ulast.b.number))
        /\ ExprEq(ulast.r.val.unit, BinaryArith("Div", ulast.a.unit, ulast.b.unit))
        /\ ExprEq(ulast.a.unit, M) /\ ExprEq(ulast.b.unit, M) =>
              PrettyShow(ulast.r.val.unit) = <<"m", "/", "m">>

\* a value in m was divided by a value in m
C4_Witness ==
    /\ Called("div")
    /\ ExprEq(ulast.a.unit, M) /\ ExprEq(ulast.b.unit, M)
    /\ ustack # <<>> /\ ExprEq(UTop.unit, ExprDiv(M, M))

SubChecksUnits ==
    Called("sub") =>
        /\ ulast.r.ok <=> ExprEq(ulast.a.unit, ulast.b.unit)
        /\ ulast.r.ok => ExprEq(ulast.r.val.unit, ulast.a.unit) /\ ~aborted
        /\ ~ulast.r.ok => aborted

NegKeepsUnit ==
    Called("neg") =>
        /\ PEq(ulast.r.val.number, PNeg(ulast.a.number))
        /\ ExprEq(ulast.r.val.unit, ulast.a.unit)

SubIsAddOfNeg ==
    Called("sub") /\ ulast.r.ok =>
        PEq(ulast.r.val.number, PAdd(ulast.a.number, PNeg(ulast.b.number)))

\* C5 as stated: a - b has the number a.number - b.number and the operands'
\* dimension when the dimensions are equal, and aborts otherwise; negation negates
\* the number and keeps the dimension.
C5_SubIsDifference ==
    /\ SubChecksUnits
    /\ NegKeepsUnit
    /\ SubIsAddOfNeg
    /\ Called("sub") /\ ulast.r.ok =>
          PEq(ulast.r.val.number, PSub(ulast.a.number, ulast.b.number))

\* C5 amended: the number of a - b is a.number + (-b.number), which is
\* a.number - b.number when the payload is f64; the rest as stated.
C5_SubIsAddOfNegation ==
    /\ SubChecksUnits
    /\ NegKeepsUnit
    /\ SubIsAddOfNeg
    /\ Called("sub") /\ ulast.r.ok /\ payload = "f64" =>
          PEq(ulast.r.val.number, PSub(ulast.a.number, ulast.b.number))

\* two values in the same dimension were subtracted and the difference is not zero
C5_Witness ==
    /\ Called("sub") /\ ulast.r.ok /\ payload = "f64"
    /\ ulast.r.val.number = 1 /\ ulast.b.number = 1

\* a dimension built from unit names by Multiply and Divide alone
RECURSIVE DimShape(_)
DimShape(e) ==
    CASE IsSymbol(e) -> TRUE
      [] IsBinary(e) -> e.op \in {"Mul", "Div"} /\ DimShape(e.a) /\ DimShape(e.b)
      [] OTHER -> FALSE

\* C9: every dimension is a tree of Symbol leaves under Multiply and Divide nodes,
\* and add, subtract and negation return the dimension of their operand.
C9_DimensionShape ==
    /\ \A i \in 1..Len(ustack) : DimShape(ustack[i].unit)
    /\ (Called("add") \/ Called("sub")) /\ ulast.r.ok =>
          /\ DimShape(ulast.r.val.unit)
          /\ ExprEq(ulast.r.val.unit, ulast.a.unit)
    /\ Called("neg") =>
          /\ DimShape(ulast.r.val.unit)
          /\ ExprEq(ulast.r.val.unit, ulast.a.unit)

\* a value whose dimension is a quotient was negated
C9_Witness ==
    /\ Called("neg")
    /\ IsBinary(ulast.a.unit) /\ ulast.a.unit.op = "Div"
    /\ ustack # <<>> /\ ExprEq(UTop.unit, ulast.a.unit)

====
